---- MODULE Spec2Model ----
(***************************************************************************)
(* The experiment driver of la/scripts/analyze_totally_disjoint.py: run()  *)
(* iterates over the configuration grid; single_configuration_experiment   *)
(* loads a dataset store, maps labels back to the global space, subsamples *)
(* and checks the anchors, projects every train/test split on the anchors, *)
(* merges the per-task splits, checks the test alignment and evaluates.    *)
(***************************************************************************)
EXTENDS Integers, Sequences, FiniteSets, TLC

\* ----------------------------------------------------------------- bounds
MaxTasks == 2        \* metadata["num_tasks"] ranges over 1..MaxTasks
MaxLen == 2          \* rows of a varied split: 1..MaxLen
MaxConfigs == 2      \* len(cfg.configurations) ranges over 1..MaxConfigs
MaxCfgAnchors == 2   \* cfg.num_anchors ranges over 1..MaxCfgAnchors
MaxMapLen == 2       \* entries of a varied global_to_local map: 0..MaxMapLen
MaxCalls == 3        \* calls made on one MyDatasetDict object: 0..MaxCalls
MaxSetups == 4       \* setup() calls made on one datamodule: 0..MaxSetups

\* ------------------------------------------------------------- universes
Modes == {"train", "val", "test", "anchors"}
DatasetNames == {"ds1", "ds2"}
ModelNames == {"m1"}
ConfigKeys == DatasetNames \X ModelNames
TestIdSet == {1, 2}
TrainIdSet == {11, 12}
AnchorIdSet == {7, 8}
LocalLabels == {0, 1}
GlobalLabels == {0, 1, 12}
Vectors == {<<0, 0>>, <<1, 0>>, <<0, 1>>, <<1, 1>>, <<2, 0>>}
BaseColumns == {"embedding", "y", "id"}
RelColumn == "relative_embeddings"

\* ---------------------------------------------------------------- helpers
Max2(a, b) == IF a >= b THEN a ELSE b
MaxOf(S) == CHOOSE m \in S : \A x \in S : x <= m
MinOf(S) == CHOOSE m \in S : \A x \in S : m <= x
SeqsUpTo(S, lo, hi) == UNION {[1..n -> S] : n \in lo..hi}
RowCap == Max2(MaxLen, MaxTasks)
Keys(nt) == (0..nt) \X Modes

\* ------------------------------------------------- decimal keys of JSON maps
\* A key of global_to_local_class_mappings is the decimal text of a global
\* label; it is modelled as its sequence of digits.
DecStr(n) == IF n < 10 THEN <<n>> ELSE <<n \div 10, n % 10>>

RECURSIVE IntOfAcc(_, _)
IntOfAcc(s, acc) ==
    IF s = <<>> THEN acc ELSE IntOfAcc(Tail(s), 10 * acc + Head(s))
\* int(k)
IntOf(s) == IntOfAcc(s, 0)

\* A JSON object loaded as a dict: a sequence of <<key, value>> items in
\* insertion order, keys pairwise distinct.
DictKeys(m) == {m[i][1] : i \in DOMAIN m}
DictValues(m) == {m[i][2] : i \in DOMAIN m}
DictGet(m, k) == m[CHOOSE i \in DOMAIN m : m[i][1] = k][2]

\* {v: int(k) for k, v in global_to_local_map.items()} : inserting in order,
\* a later item with the same value v overwrites the earlier one.
\* The same comprehension without the inversion: {int(k): v}.
LocalToGlobalNotInverted(g2l) ==
    [g \in {IntOf(k) : k \in DictKeys(g2l)} |->
        g2l[CHOOSE i \in DOMAIN g2l : IntOf(g2l[i][1]) = g][2]]
LocalToGlobalMap(g2l) ==
    [v \in DictValues(g2l) |->
        IntOf(g2l[MaxOf({i \in DOMAIN g2l : g2l[i][2] = v})][1])]

\* ------------------------------------------------------------ collections
\* A sample collection: its rows in order, its columns, and the columns the
\* current format returns as torch tensors ({} = plain Python objects).
\* A row is a record with one field per column.
Ids(coll) == [i \in DOMAIN coll.rows |-> coll.rows[i].id]
Embeddings(coll) == [i \in DOMAIN coll.rows |-> coll.rows[i].embedding]

\* ------------------------------------------------- map_labels_to_global
\* local_to_global_map[row["y"].item()] : a missing key raises KeyError.
\* A lookup that keeps an unknown label: local_to_global_map.get(y, y).
LabelOfLenient(l2g, y) ==
    [ok |-> TRUE, val |-> IF y \in DOMAIN l2g THEN l2g[y] ELSE y]
LabelOf(l2g, y) ==
    [ok |-> y \in DOMAIN l2g, val |-> IF y \in DOMAIN l2g THEN l2g[y] ELSE y]

\* What Dataset.map of the label lambda raises on one split, or "none".
\* row["y"].item() needs y to be returned as a tensor by the split's format.
MapSplitError(coll, l2g) ==
    IF coll.rows = <<>> THEN "none"
    ELSE IF "y" \notin coll.fmt THEN "AttributeError"
    ELSE IF \E i \in DOMAIN coll.rows : ~LabelOf(l2g, coll.rows[i].y).ok
         THEN "KeyError"
    ELSE "none"

\* The split returned by Dataset.map: same rows in the same order, y rewritten.
MapSplit(coll, l2g) ==
    [coll EXCEPT !.rows =
        [i \in DOMAIN coll.rows |->
            [coll.rows[i] EXCEPT !.y = LabelOf(l2g, coll.rows[i].y).val]]]

\* for mode in ["train", "val", "test"]
\* The mode list with the anchors split added.
MapModesWithAnchors == <<"train", "val", "test", "anchors">>
MapModes == <<"train", "val", "test">>

\* The k-th (task, mode) pair of the two nested loops, tasks 1..num_tasks.
MapKey(k) ==
    <<((k - 1) \div Len(MapModes)) + 1, MapModes[((k - 1) % Len(MapModes)) + 1]>>

RECURSIVE MapLabelsFrom(_, _, _)
MapLabelsFrom(tables, meta, k) ==
    IF k > Len(MapModes) * meta.num_tasks THEN [tables |-> tables, err |-> "none"]
    ELSE LET key == MapKey(k)
             l2g == LocalToGlobalMap(meta.g2l[key[1]])
             e   == MapSplitError(tables[key], l2g)
         IN  IF e # "none" THEN [tables |-> tables, err |-> e]
             ELSE MapLabelsFrom([tables EXCEPT ![key] = MapSplit(tables[key], l2g)],
                                meta, k + 1)

\* map_labels_to_global(data, num_tasks): the store it leaves and the error
\* it raises ("none" when it returns).
MapLabelsToGlobal(tables, meta) == MapLabelsFrom(tables, meta, 1)

\* ------------------------------------------------------- set_torch_format
\* data[key].set_format(type="torch", columns=tensor_columns) for every task
\* and every mode of `modes`.
SetTorchFormat(tables, nt, modes, columns) ==
    [key \in DOMAIN tables |->
        IF key[1] \in 0..nt /\ key[2] \in modes
        THEN [tables[key] EXCEPT !.fmt = columns]
        ELSE tables[key]]

\* ------------------------------------------------------ anchor subsampling
\* Dataset.select(range(n)): the first n rows; IndexError past the end.
Select(coll, n) == [coll EXCEPT !.rows = SubSeq(coll.rows, 1, n)]

RECURSIVE SubsampleFrom(_, _, _, _)
SubsampleFrom(tables, nt, n, task) ==
    IF task > nt THEN [tables |-> tables, err |-> "none"]
    ELSE LET key == <<task, "anchors">>
         IN  IF Len(tables[key].rows) < n
             THEN [tables |-> tables, err |-> "IndexError"]
             ELSE SubsampleFrom([tables EXCEPT ![key] = Select(tables[key], n)],
                                nt, n, task + 1)

\* SUBSAMPLE_ANCHORS = global_cfg.num_anchors < num_anchors
SubsampleAnchors(cfgNum, tables) == cfgNum < Len(tables[<<0, "anchors">>].rows)

\* The store, the error and num_anchors after the subsampling block.
Subsample(tables, nt, cfgNum) ==
    IF SubsampleAnchors(cfgNum, tables)
    THEN LET r == SubsampleFrom(tables, nt, cfgNum, 0)
         IN  [tables |-> r.tables, err |-> r.err, num_anchors |-> cfgNum]
    ELSE [tables |-> tables, err |-> "none",
          num_anchors |-> Len(tables[<<0, "anchors">>].rows)]

\* ------------------------------------------------- tensor id comparisons
\* torch.all(torch.eq(a, b)) on two 1-d tensors: elementwise on equal
\* lengths, a length-1 tensor is broadcast against the other, any other pair
\* of lengths raises RuntimeError.
TorchAllEq(a, b) ==
    IF Len(a) = Len(b)
    THEN IF \A i \in DOMAIN a : a[i] = b[i] THEN "true" ELSE "false"
    ELSE IF Len(a) = 1
    THEN IF \A i \in DOMAIN b : a[1] = b[i] THEN "true" ELSE "false"
    ELSE IF Len(b) = 1
    THEN IF \A i \in DOMAIN a : a[i] = b[1] THEN "true" ELSE "false"
    ELSE "RuntimeError"

\* assert torch.all(a == b) : the error it raises, or "none".
AssertAllEq(a, b) ==
    LET r == TorchAllEq(a, b)
    IN  IF r = "true" THEN "none"
        ELSE IF r = "false" THEN "AssertionError"
        ELSE r

\* ------------------------------------------------- check_same_anchor_ids
AnchorIds(tables, task) == Ids(tables[<<task, "anchors">>])

\* The pairs the two loops visit: task_i in 0..num_tasks, task_j in task_i..num_tasks.
AnchorPairs(nt) == {p \in (0..nt) \X (0..nt) : p[1] <= p[2]}

\* The error of the first failing pair in loop order, or "none".
CheckSameAnchorIds(tables, nt) ==
    LET bad == {p \in AnchorPairs(nt) :
                   AssertAllEq(AnchorIds(tables, p[1]), AnchorIds(tables, p[2])) # "none"}
    IN  IF bad = {} THEN "none"
        ELSE LET i == MinOf({p[1] : p \in bad})
                 j == MinOf({p[2] : p \in {q \in bad : q[1] = i}})
             IN  AssertAllEq(AnchorIds(tables, i), AnchorIds(tables, j))

\* ------------------------------------------------------------- projection
Dot(u, v) == u[1] * v[1] + u[2] * v[2]
NormSq(v) == Dot(v, v)

\* F.normalize(x, p=2, dim=-1) = x / max(||x||, eps): the vector num divided
\* by the square root of den2.  A zero vector is divided by eps and stays the
\* zero vector: no error is raised.
Normalize(v) == [num |-> v, den2 |-> IF NormSq(v) = 0 THEN 1 ELSE NormSq(v)]

\* One entry of abs_space @ norm_anchors.T : the cosine c of the two vectors,
\* held exactly as 16 * sign(c) * c^2 (the norms of Vectors make this whole).
RelEntry(s, a) ==
    LET d == Dot(s.num, a.num)
    IN  (IF d < 0 THEN -1 ELSE 1) * ((16 * d * d) \div (s.den2 * a.den2))

\* rel_space: one row per sample, one entry per anchor.
\* The product taken against the samples themselves: abs_space @ abs_space.T.
RelSpaceOfSamples(samples, anchors) ==
    [n \in DOMAIN samples |->
        [a \in DOMAIN samples |-> RelEntry(Normalize(samples[n]), Normalize(samples[a]))]]
RelSpace(samples, anchors) ==
    [n \in DOMAIN samples |->
        [a \in DOMAIN anchors |-> RelEntry(Normalize(samples[n]), Normalize(anchors[a]))]]

\* Dataset.to_dict(): column name -> list of the column's values, every column.
ToDict(coll) == [c \in coll.cols |-> [i \in DOMAIN coll.rows |-> coll.rows[i][c]]]

\* Dataset.from_dict(d): row i takes entry i of every column; no format.
FromDict(d) ==
    LET n == Len(d[CHOOSE c \in DOMAIN d : TRUE])
    IN  [rows |-> [i \in 1..n |-> [c \in DOMAIN d |-> d[c][i]]],
         cols |-> DOMAIN d,
         fmt  |-> {}]

\* add_tensor_column(dataset, column, tensor)
AddTensorColumn(coll, column, tensor) ==
    LET d == ToDict(coll)
    IN  FromDict([c \in DOMAIN d \cup {column} |-> IF c = column THEN tensor ELSE d[c]])

\* for mode in ["train", "test"]
ProjectModes == {"train", "test"}

\* The "map to relative" loops: every task 0..num_tasks, every mode.
Project(tables, nt) ==
    [key \in DOMAIN tables |->
        IF key[1] \in 0..nt /\ key[2] \in ProjectModes
        THEN AddTensorColumn(tables[key], RelColumn,
                 RelSpace(Embeddings(tables[key]),
                          Embeddings(tables[<<key[1], "anchors">>])))
        ELSE tables[key]]

\* ------------------------------------------------------- merge and sort
\* concatenate_datasets([data[f"task_{i}_{mode}"] for i in range(first, num_tasks + 1)])
RECURSIVE ConcatRows(_, _, _, _)
ConcatRows(tables, mode, task, nt) ==
    IF task > nt THEN <<>>
    ELSE tables[<<task, mode>>].rows \o ConcatRows(tables, mode, task + 1, nt)

\* range(0, num_tasks + 1): the reference task merged with the others.
MergeFromTaskZero == 1 - 1
FirstMergedTask == 1

ConcatenateDatasets(tables, mode, nt) ==
    [rows |-> ConcatRows(tables, mode, FirstMergedTask, nt),
     cols |-> tables[<<FirstMergedTask, mode>>].cols,
     fmt  |-> tables[<<FirstMergedTask, mode>>].fmt]

\* The orders Dataset.sort("id") may return: ascending by id, rows of equal
\* id in any relative order.  Each is a sequence of row positions.
RECURSIVE SortOrders(_, _)
SortOrders(rows, left) ==
    IF left = {} THEN {<<>>}
    ELSE LET m == MinOf({rows[i].id : i \in left})
         IN  UNION {{<<i>> \o rest : rest \in SortOrders(rows, left \ {i})} :
                        i \in {k \in left : rows[k].id = m}}

SortById(coll) ==
    {[coll EXCEPT !.rows = [k \in DOMAIN o |-> coll.rows[o[k]]]] :
        o \in SortOrders(coll.rows, DOMAIN coll.rows)}

\* ---------------------------------------------------------------- results
\* What an evaluator returns for a configuration is opaque here: it is named
\* by the evaluator and the configuration it was computed for.
NoResult == [kind |-> "none", dataset |-> "", model |-> ""]
ResultOf(kind, key) == [kind |-> kind, dataset |-> key[1], model |-> key[2]]
ResultKinds == {"cka", "class", "knn"}

\* all_*_results = {dataset_name: {model_name: {} ...} ...}
EmptyResults == [k \in ConfigKeys |-> NoResult]

\* The three result files; written is FALSE until save_dict_to_file wrote it.
NoFiles == [r \in ResultKinds |-> [written |-> FALSE, content |-> EmptyResults]]

\* save_dict_to_file(content, path)
SaveDictToFile(content) == [written |-> TRUE, content |-> content]

\* What the body of the configuration loop leaves in the result files: it
\* only assigns into the three dictionaries.
\* A loop body that also saves the three dictionaries.
FilesSavedEachIteration(fs, all) ==
    [r \in DOMAIN fs |-> [written |-> TRUE, content |-> all[r]]]
FilesAfterRecord(fs, all) == fs

\* ----------------------------------------------------- the stages of a run
\* The statements of single_configuration_experiment and of the loop body of
\* run, in program order.
\* The same statements with the projection loops ahead of the anchor check.
StageOrderProjectFirst ==
    <<"load", "map_labels", "set_format", "subsample", "project",
      "check_anchors", "set_format_rel", "merge", "align", "evaluate", "record">>
StageOrder ==
    <<"load", "map_labels", "set_format", "subsample", "check_anchors",
      "project", "set_format_rel", "merge", "align", "evaluate", "record">>

StageIndex(stage) == CHOOSE i \in DOMAIN StageOrder : StageOrder[i] = stage
NextStage(stage) == StageOrder[StageIndex(stage) + 1]

EmptyColl == [rows |-> <<>>, cols |-> {}, fmt |-> {}]
EmptyStore == [tables |-> <<>>, metadata |-> [num_tasks |-> 0, g2l |-> <<>>]]
NoMerged == [train |-> EmptyColl, test |-> EmptyColl,
             original_train |-> EmptyColl, original_test |-> EmptyColl]
NoError == [stage |-> "", kind |-> "none"]
NoLocalResults == [r \in ResultKinds |-> NoResult]
NotChecked == [done |-> FALSE, anchors |-> <<>>]

\* ------------------------------------------------------ datasets on disk
MkRows(ids, ys, embs) ==
    [i \in 1..Len(ids) |-> [id |-> ids[i], y |-> ys[i], embedding |-> embs[i]]]

\* The store MyDatasetDict.load_from_disk returns for the parameters p.
MkStore(p) ==
    [tables |-> [key \in Keys(p.nt) |->
                    [rows |-> MkRows(p.ids[key], p.y[key], p.emb[key]),
                     cols |-> BaseColumns,
                     fmt  |-> p.fmt]],
     metadata |-> [num_tasks |-> p.nt, g2l |-> p.g2l]]

\* A well-formed dataset of nt tasks: task t holds test id t and train id
\* 10 + t, task 0 holds them all, every task holds the same two anchors.
BaseIds(nt, key) ==
    IF key[2] = "anchors" THEN <<7, 8>>
    ELSE IF key[2] = "val" THEN <<20 + key[1]>>
    ELSE LET off == IF key[2] = "train" THEN 10 ELSE 0
         IN  IF key[1] = 0 THEN [i \in 1..nt |-> off + i] ELSE <<off + key[1]>>

BaseY(key) == [i \in 1..RowCap |-> (i + 1) % 2]

BaseEmb(key) ==
    [i \in 1..RowCap |->
        IF key[2] = "anchors"
        THEN (IF i = 1 THEN <<1, 0>> ELSE IF i = 2 THEN <<0, 1>> ELSE <<1, 1>>)
        ELSE <<1, 1>>]

BaseG2L(t) == << <<DecStr(t), 0>>, <<DecStr(10 + t), 1>> >>

Base(nt) ==
    [nt  |-> nt,
     ids |-> [key \in Keys(nt) |-> BaseIds(nt, key)],
     y   |-> [key \in Keys(nt) |-> BaseY(key)],
     emb |-> [key \in Keys(nt) |-> BaseEmb(key)],
     g2l |-> [t \in 1..nt |-> BaseG2L(t)],
     fmt |-> BaseColumns]

\* Families of datasets: the base with one aspect varied.
\* The ids of one mode's split of task 0 and of task t.
IdsStore(nt, mode, t, s0, st) ==
    MkStore([Base(nt) EXCEPT !.ids[<<0, mode>>] = s0, !.ids[<<t, mode>>] = st])

DecKeys == {DecStr(g) : g \in GlobalLabels}
OrderedMaps ==
    {m \in SeqsUpTo(DecKeys \X LocalLabels, 0, MaxMapLen) :
        \A i, j \in DOMAIN m : m[i][1] = m[j][1] => i = j}

\* The global_to_local map of task t and the label of its first samples.
LabelsStore(nt, t, m, y1, y2, y3) ==
    MkStore([Base(nt) EXCEPT !.g2l[t] = m,
                             !.y[<<t, "train">>][1] = y1,
                             !.y[<<t, "val">>][1] = y2,
                             !.y[<<t, "test">>][1] = y3])

\* The embeddings of one split.
EmbStore(nt, key, e) == MkStore([Base(nt) EXCEPT !.emb[key] = e])

\* A dataset saved without a torch format.
UnformattedStore(nt) == MkStore([Base(nt) EXCEPT !.fmt = {}])

FirstKey == <<"ds1", "m1">>
GoodStore == MkStore(Base(1))
GridStores ==
    {GoodStore,
     MkStore([Base(1) EXCEPT !.ids[<<1, "anchors">>] = <<8, 7>>]),
     MkStore([Base(1) EXCEPT !.ids[<<1, "test">>] = <<2>>]),
     MkStore([Base(1) EXCEPT !.g2l[1] = <<>>])}

\* ----------------------------------------------------------- MyDatasetDict
\* The object is a dict (entries: key -> value) with the attribute data_keys.
\* Its sample collections sit under the keys load_data gives them, the
\* metadata record under "metadata".
SampleKeys == {"train", "test"}
MetadataKey == "metadata"

SampleColl(ids) ==
    [rows |-> MkRows(ids, [i \in DOMAIN ids |-> 0], [i \in DOMAIN ids |-> <<1, 1>>]),
     cols |-> BaseColumns,
     fmt  |-> {}]

\* Metadata records: num_tasks and the global_to_local map of every task.
Metas ==
    {[num_tasks |-> nt,
      g2l |-> [t \in 1..nt |-> IF t = 1 THEN m ELSE BaseG2L(t)]] :
        nt \in 1..MaxTasks, m \in OrderedMaps}

\* __init__ : the dict of the arguments, data_keys = None.
MyDatasetDict(entries) == [entries |-> entries, data_keys |-> "None"]

Put(entries, k, v) ==
    [x \in DOMAIN entries \cup {k} |-> IF x = k THEN v ELSE entries[x]]
Without(entries, k) == [x \in DOMAIN entries \ {k} |-> entries[x]]

\* json.dump of a metadata record: the text of the file, numbers written in
\* decimal (modelled as their digits), string keys kept, items in order.
JsonDump(m) ==
    [num_tasks |-> DecStr(m.num_tasks),
     g2l |-> [t \in DOMAIN m.g2l |->
                 [i \in DOMAIN m.g2l[t] |->
                     <<m.g2l[t][i][1], DecStr(m.g2l[t][i][2])>>]]]

\* json.load of that text: numbers parsed back to integers.
JsonLoad(doc) ==
    [num_tasks |-> IntOf(doc.num_tasks),
     g2l |-> [t \in DOMAIN doc.g2l |->
                 [i \in DOMAIN doc.g2l[t] |->
                     <<doc.g2l[t][i][1], IntOf(doc.g2l[t][i][2])>>]]]

\* The dataset directory: whether it exists, its metadata.json ("absent",
\* "empty" after a truncating open, or "json" with its text) and what the
\* bulk save of the parent class left (dataset_dict.json and the splits).
NoDoc == [num_tasks |-> <<>>, g2l |-> <<>>]
NoFile == [state |-> "absent", doc |-> NoDoc]
EmptyFile == [state |-> "empty", doc |-> NoDoc]
JsonFile(doc) == [state |-> "json", doc |-> doc]
NoBulk == [written |-> FALSE, splits |-> <<>>]
NoDir == [exists |-> FALSE, sidecar |-> NoFile, bulk |-> NoBulk]
EmptyDir == [NoDir EXCEPT !.exists = TRUE]

\* save_metadata: open(metadata_path, "w") creates or truncates the file
\* (FileNotFoundError without the directory), then json.dump(self["metadata"])
\* (KeyError without the key, the file left empty).
SaveMetadata(d, dr) ==
    IF ~dr.exists THEN [dir |-> dr, raised |-> "FileNotFoundError"]
    ELSE IF MetadataKey \notin DOMAIN d.entries
    THEN [dir |-> [dr EXCEPT !.sidecar = EmptyFile], raised |-> "KeyError"]
    ELSE [dir |-> [dr EXCEPT !.sidecar = JsonFile(JsonDump(d.entries[MetadataKey]))],
          raised |-> "none"]

\* The entries left in the dict without the removal of the metadata key.
BulkEntriesWithMetadata(entries) == entries
\* tmp = self["metadata"]; del self["metadata"] : what the dict holds when
\* super().save_to_disk runs.
BulkEntries(entries) == Without(entries, MetadataKey)

\* save_to_disk. fails: super().save_to_disk raises (num_shards that is not
\* a dict, an I/O error); it is taken to raise before it writes.
\* handed: the keys of the dict the bulk save was called on.
SaveToDiskOutcome(d, dr, fails) ==
    LET sm == SaveMetadata(d, dr)
    IN  IF sm.raised # "none"
        THEN [ds |-> d, dir |-> sm.dir, raised |-> sm.raised, handed |-> {}]
        ELSE LET tmp == d.entries[MetadataKey]
                 rest == BulkEntries(d.entries)
             IN  IF fails
                 THEN [ds |-> [d EXCEPT !.entries = rest], dir |-> sm.dir,
                       raised |-> "BulkSaveError", handed |-> DOMAIN rest]
                 ELSE [ds |-> [d EXCEPT !.entries = Put(rest, MetadataKey, tmp)],
                       dir |-> [sm.dir EXCEPT !.bulk = [written |-> TRUE, splits |-> rest]],
                       raised |-> "none", handed |-> DOMAIN rest]

\* load_from_disk: the bulk load of the parent class (FileNotFoundError
\* without a saved dataset), data_keys = dataset.keys(), then
\* dataset["metadata"] = json.load(open(metadata.json)).
LoadFromDiskOutcome(d, dr) ==
    IF ~dr.exists \/ ~dr.bulk.written
    THEN [ds |-> d, raised |-> "FileNotFoundError"]
    ELSE IF dr.sidecar.state = "absent"
    THEN [ds |-> d, raised |-> "FileNotFoundError"]
    ELSE IF dr.sidecar.state = "empty"
    THEN [ds |-> d, raised |-> "JSONDecodeError"]
    ELSE [ds |-> [entries |-> Put(dr.bulk.splits, MetadataKey, JsonLoad(dr.sidecar.doc)),
                  data_keys |-> "dict_keys"],
          raised |-> "none"]

\* set_format: for key in self.data_keys(): ... ; data_keys is None or the
\* dict_keys view load_from_disk stored, and calling either raises TypeError
\* before any collection is touched.
SetFormatOutcome(d, columns) ==
    CASE d.data_keys = "None" -> [ds |-> d, raised |-> "TypeError"]
      [] d.data_keys = "dict_keys" -> [ds |-> d, raised |-> "TypeError"]

\* ------------------------------------ SameClassesDisjSamplesDatamodule
\* modes = ["train", "val", "test", "anchors"]
SetupModes == <<"train", "val", "test", "anchors">>
SetupModeSet == {SetupModes[i] : i \in DOMAIN SetupModes}

\* A split of the datamodule's store: how many times transform_func has been
\* mapped over its x column, and the columns of its torch format.
Untransformed == [applied |-> 0, fmt |-> {}]

\* __init__ : the store of the parent class with task_{t}_anchors set to the
\* shared anchors for t in range(num_tasks + 1), train_on_anchors, and
\* seen_tasks = set(). task_ind, shuffle_train and datasets belong to the
\* parent class.
NewDatamodule(nt, toa, t, shuffle) ==
    [num_tasks |-> nt,
     train_on_anchors |-> toa,
     task_ind |-> t,
     shuffle_train |-> shuffle,
     seen_tasks |-> {},
     data |-> [key \in (0..nt) \X SetupModeSet |-> Untransformed],
     datasets |-> [m \in SetupModeSet |-> <<>>]]

\* self.data[key] = self.data[key].map(x -> transform_func(x));
\* self.data[key].set_format(type="torch", columns=["x", "y"])
TransformSplit(split) == [applied |-> split.applied + 1, fmt |-> {"x", "y"}]

\* concatenate_datasets(train, anchors) is called with the two datasets as
\* positional arguments (dsets, info) instead of a list: the library
\* iterates over the rows of train and raises, ValueError or AttributeError
\* by its version.
ConcatErrors == {"ValueError", "AttributeError"}

RECURSIVE TransformModes(_, _, _)
TransformModes(d, t, i) ==
    IF i > Len(SetupModes) THEN d
    ELSE TransformModes(
             [d EXCEPT !.data[<<t, SetupModes[i]>>] = TransformSplit(@),
                       !.datasets[SetupModes[i]] = <<t, SetupModes[i]>>],
             t, i + 1)

\* setup: dm after the call and the exceptions it can end with.
SetupOutcome(d) ==
    IF d.task_ind \in d.seen_tasks
    THEN [dm |-> d, raised |-> {"none"}]
    ELSE LET d1 == TransformModes([d EXCEPT !.shuffle_train = TRUE], d.task_ind, 1)
         IN  IF d.train_on_anchors
             THEN [dm |-> d1, raised |-> ConcatErrors]
             ELSE [dm |-> [d1 EXCEPT !.seen_tasks = @ \cup {d.task_ind}],
                   raised |-> {"none"}]

\* ------------------------------------------------------------------ state
VARIABLES
    configurations,  \* cfg.configurations: the (dataset_name, model_name) grid
    cfgNumAnchors,   \* cfg.num_anchors
    disk,            \* the dataset directory of every (dataset, model)
    files,           \* the three result JSON files
    allResults,      \* all_cka_results, all_class_results, all_knn_results
    idx,             \* position of the configuration loop of run
    pc,              \* the stage about to run, "save", "done" or "aborted"
    data,            \* the store of the running configuration
    numAnchors,      \* num_anchors
    merged,          \* the merged and the reference collections, id-sorted
    results,         \* cka_results, class_results, knn_results
    error,           \* the exception that ended the run
    checked,         \* the anchor splits check_same_anchor_ids passed on
    beforeProject,   \* the tables as they were when projection began
    ds,              \* a MyDatasetDict object
    dir,             \* the dataset directory it is saved to and loaded from
    call,            \* the last call on it: method, exception, object at entry
    prev,            \* the call before that
    ncalls,          \* the number of calls made
    dm,              \* a SameClassesDisjSamplesDatamodule object
    setupCall        \* the last setup() call on it: count, exception, object at entry

storeVars == <<ds, dir, call, prev, ncalls>>
setupVars == <<dm, setupCall>>

vars == <<configurations, cfgNumAnchors, disk, files, allResults, idx, pc, data,
          numAnchors, merged, results, error, checked, beforeProject, storeVars,
          setupVars>>

inputs == <<configurations, cfgNumAnchors, disk>>

\* A grid of the single configuration FirstKey over the dataset d.
\* The object the constructor returns for the entries, nothing called yet.
Constructed(entries, dr) ==
    /\ ds = MyDatasetDict(entries)
    /\ dir = dr
    /\ call = [op |-> "__init__", raised |-> "none", before |-> MyDatasetDict(entries),
               handed |-> {}, columns |-> {}]
    /\ prev = call
    /\ ncalls = 0

\* No call has been made on a MyDatasetDict of the two splits.
StoreIdle == Constructed([k \in SampleKeys |-> SampleColl(<<1>>)], NoDir)

\* The datamodule the constructor returns, setup() not called yet.
ConstructedDatamodule(nt, toa, t, shuffle) ==
    /\ dm = NewDatamodule(nt, toa, t, shuffle)
    /\ setupCall = [n |-> 0, raised |-> "none", before |-> dm]

SetupIdle == ConstructedDatamodule(1, FALSE, 0, FALSE)

SingleConfig(d, cfgs) ==
    /\ configurations = <<FirstKey>>
    /\ disk = [x \in ConfigKeys |-> IF x = FirstKey THEN d ELSE GoodStore]
    /\ cfgNumAnchors \in cfgs

IdSeqs(idSet) == SeqsUpTo(idSet, 1, MaxLen)

\* A grid of one configuration over a dataset of one of the families
\* (cfg.num_anchors varies where the anchors matter), or a longer grid over
\* the four datasets of GridStores.
Init ==
    /\ \/ \E nt \in 1..MaxTasks, t \in 1..MaxTasks,
             s0 \in IdSeqs(AnchorIdSet), st \in IdSeqs(AnchorIdSet) :
               /\ t <= nt
               /\ SingleConfig(IdsStore(nt, "anchors", t, s0, st), 1..MaxCfgAnchors)
       \/ \E nt \in 1..MaxTasks, t \in 1..MaxTasks,
             s0 \in IdSeqs(TestIdSet), st \in IdSeqs(TestIdSet) :
               /\ t <= nt
               /\ SingleConfig(IdsStore(nt, "test", t, s0, st), {1})
       \/ \E nt \in 1..MaxTasks, t \in 1..MaxTasks,
             s0 \in IdSeqs(TrainIdSet), st \in IdSeqs(TrainIdSet) :
               /\ t <= nt
               /\ SingleConfig(IdsStore(nt, "train", t, s0, st), {1})
       \/ \E nt \in 1..MaxTasks, t \in 1..MaxTasks, m \in OrderedMaps,
             y1 \in LocalLabels, y2 \in LocalLabels, y3 \in LocalLabels :
               /\ t <= nt
               /\ SingleConfig(LabelsStore(nt, t, m, y1, y2, y3), {1})
       \/ \E nt \in 1..MaxTasks, t \in 0..MaxTasks, mode \in {"anchors", "train", "test"} :
               /\ t <= nt
               /\ \E e \in [1..Len(BaseIds(nt, <<t, mode>>)) -> Vectors] :
                     SingleConfig(EmbStore(nt, <<t, mode>>, e @@ BaseEmb(<<t, mode>>)),
                                  1..MaxCfgAnchors)
       \/ \E nt \in 1..MaxTasks : SingleConfig(UnformattedStore(nt), {1})
       \/ /\ configurations \in SeqsUpTo(ConfigKeys, 2, MaxConfigs)
          /\ disk \in [ConfigKeys -> GridStores]
          /\ cfgNumAnchors \in 1..MaxCfgAnchors
    /\ files = NoFiles
    /\ allResults = [r \in ResultKinds |-> EmptyResults]
    /\ idx = 1
    /\ pc = "load"
    /\ data = EmptyStore
    /\ numAnchors = 0
    /\ merged = NoMerged
    /\ results = NoLocalResults
    /\ error = NoError
    /\ checked = NotChecked
    /\ beforeProject = <<>>
    /\ StoreIdle
    /\ SetupIdle

CurrentKey == configurations[idx]
NumTasks == data.metadata.num_tasks

\* An exception leaves single_configuration_experiment and run.
Abort(stage, kind) ==
    /\ pc' = "aborted"
    /\ error' = [stage |-> stage, kind |-> kind]

\* data = MyDatasetDict.load_from_disk(dataset_path); num_tasks = ...
LoadDataset ==
    /\ pc = "load"
    /\ data' = disk[CurrentKey]
    /\ pc' = NextStage(pc)
    /\ UNCHANGED <<storeVars, setupVars, inputs, files, allResults, idx, numAnchors, merged, results,
                   error, checked, beforeProject>>

\* map_labels_to_global(data, num_tasks)
MapLabels ==
    /\ pc = "map_labels"
    /\ LET r == MapLabelsToGlobal(data.tables, data.metadata)
       IN  /\ data' = [data EXCEPT !.tables = r.tables]
           /\ IF r.err = "none"
              THEN pc' = NextStage(pc) /\ error' = error
              ELSE Abort(pc, r.err)
    /\ UNCHANGED <<storeVars, setupVars, inputs, files, allResults, idx, numAnchors, merged, results, checked, beforeProject>>

\* set_torch_format(data, num_tasks, ["train", "test", "anchors"], tensor_columns)
SetFormat ==
    /\ pc = "set_format"
    /\ data' = [data EXCEPT !.tables =
                   SetTorchFormat(data.tables, NumTasks, {"train", "test", "anchors"},
                                  BaseColumns)]
    /\ pc' = NextStage(pc)
    /\ UNCHANGED <<storeVars, setupVars, inputs, files, allResults, idx, numAnchors, merged, results,
                   error, checked, beforeProject>>

\* num_anchors = len(...); if SUBSAMPLE_ANCHORS: ... select(range(num_anchors))
SubsampleStep ==
    /\ pc = "subsample"
    /\ LET r == Subsample(data.tables, NumTasks, cfgNumAnchors)
       IN  /\ data' = [data EXCEPT !.tables = r.tables]
           /\ numAnchors' = r.num_anchors
           /\ IF r.err = "none"
              THEN pc' = NextStage(pc) /\ error' = error
              ELSE Abort(pc, r.err)
    /\ UNCHANGED <<storeVars, setupVars, inputs, files, allResults, idx, merged, results, checked, beforeProject>>

\* check_same_anchor_ids(data, num_tasks)
CheckAnchors ==
    /\ pc = "check_anchors"
    /\ LET e == CheckSameAnchorIds(data.tables, NumTasks)
       IN  IF e = "none"
           THEN /\ pc' = NextStage(pc)
                /\ error' = error
                /\ checked' = [done |-> TRUE,
                               anchors |-> [t \in 0..NumTasks |->
                                               data.tables[<<t, "anchors">>].rows]]
           ELSE Abort(pc, e) /\ checked' = checked
    /\ UNCHANGED <<storeVars, setupVars, inputs, files, allResults, idx, data, numAnchors, merged, results, beforeProject>>

\* the "map to relative" loops
ProjectStep ==
    /\ pc = "project"
    /\ data' = [data EXCEPT !.tables = Project(data.tables, NumTasks)]
    /\ beforeProject' = data.tables
    /\ pc' = NextStage(pc)
    /\ UNCHANGED <<storeVars, setupVars, inputs, files, allResults, idx, numAnchors, merged, results,
                   error, checked>>

\* set_torch_format(data, num_tasks, ["train", "test"], tensor_columns + [rel])
SetFormatRel ==
    /\ pc = "set_format_rel"
    /\ data' = [data EXCEPT !.tables =
                   SetTorchFormat(data.tables, NumTasks, {"train", "test"},
                                  BaseColumns \cup {RelColumn})]
    /\ pc' = NextStage(pc)
    /\ UNCHANGED <<storeVars, setupVars, inputs, files, allResults, idx, numAnchors, merged, results,
                   error, checked, beforeProject>>

\* concatenate_datasets(...) twice, then the four .sort("id")
Merge ==
    /\ pc = "merge"
    /\ \E mtr \in SortById(ConcatenateDatasets(data.tables, "train", NumTasks)),
          mte \in SortById(ConcatenateDatasets(data.tables, "test", NumTasks)),
          otr \in SortById(data.tables[<<0, "train">>]),
          ote \in SortById(data.tables[<<0, "test">>]) :
            merged' = [train |-> mtr, test |-> mte,
                       original_train |-> otr, original_test |-> ote]
    /\ pc' = NextStage(pc)
    /\ UNCHANGED <<storeVars, setupVars, inputs, files, allResults, idx, data, numAnchors, results,
                   error, checked, beforeProject>>

\* The alignment step with the train assertion of lines 142-143 in force.
AlignErrorWithTrain(m) ==
    LET e == AssertAllEq(Ids(m.train), Ids(m.original_train))
    IN  IF e # "none" THEN e
        ELSE AssertAllEq(Ids(m.test), Ids(m.original_test))

\* The error of the alignment step, or "none": the train assertion is
\* commented out, only
\* assert torch.all(torch.eq(merged_dataset_test["id"], original_dataset_test["id"]))
\* runs.
AlignError(m) == AssertAllEq(Ids(m.test), Ids(m.original_test))

Align ==
    /\ pc = "align"
    /\ LET e == AlignError(merged)
       IN  IF e = "none"
           THEN pc' = NextStage(pc) /\ error' = error
           ELSE Abort(pc, e)
    /\ UNCHANGED <<storeVars, setupVars, inputs, files, allResults, idx, data, numAnchors, merged,
                   results, checked, beforeProject>>

\* the CKA, k-NN and classifier experiments; return
Evaluate ==
    /\ pc = "evaluate"
    /\ results' = [r \in ResultKinds |-> ResultOf(r, CurrentKey)]
    /\ pc' = NextStage(pc)
    /\ UNCHANGED <<storeVars, setupVars, inputs, files, allResults, idx, data, numAnchors, merged,
                   error, checked, beforeProject>>

\* all_*_results[dataset_name][model_name] = ...; next configuration
Record ==
    /\ pc = "record"
    /\ allResults' = [r \in ResultKinds |->
                         [allResults[r] EXCEPT ![CurrentKey] = results[r]]]
    /\ files' = FilesAfterRecord(files, allResults')
    /\ data' = EmptyStore
    /\ numAnchors' = 0
    /\ merged' = NoMerged
    /\ results' = NoLocalResults
    /\ checked' = NotChecked
    /\ beforeProject' = <<>>
    /\ IF idx < Len(configurations)
       THEN idx' = idx + 1 /\ pc' = "load"
       ELSE idx' = idx /\ pc' = "save"
    /\ UNCHANGED <<storeVars, setupVars, inputs, error>>

\* the three save_dict_to_file calls after the loop
SaveResults ==
    /\ pc = "save"
    /\ files' = [r \in ResultKinds |-> SaveDictToFile(allResults[r])]
    /\ pc' = "done"
    /\ UNCHANGED <<storeVars, setupVars, inputs, allResults, idx, data, numAnchors, merged, results,
                   error, checked, beforeProject>>

Next ==
    \/ LoadDataset
    \/ MapLabels
    \/ SetFormat
    \/ SubsampleStep
    \/ CheckAnchors
    \/ ProjectStep
    \/ SetFormatRel
    \/ Merge
    \/ Align
    \/ Evaluate
    \/ Record
    \/ SaveResults

Spec == Init /\ [][Next]_vars

\* ------------------------------------------- the MyDatasetDict state machine
runVars == <<configurations, cfgNumAnchors, disk, files, allResults, idx, pc,
             data, numAnchors, merged, results, error, checked, beforeProject>>

\* No experiment is running.
RunIdle ==
    /\ SingleConfig(GoodStore, {1})
    /\ files = NoFiles
    /\ allResults = [r \in ResultKinds |-> EmptyResults]
    /\ idx = 1
    /\ pc = "load"
    /\ data = EmptyStore
    /\ numAnchors = 0
    /\ merged = NoMerged
    /\ results = NoLocalResults
    /\ error = NoError
    /\ checked = NotChecked
    /\ beforeProject = <<>>

\* MyDatasetDict(train=..., test=...) or MyDatasetDict({..., "metadata": m}),
\* and a directory that does not exist yet or is empty.
InitStore ==
    /\ RunIdle
    /\ SetupIdle
    /\ \E keys \in SUBSET SampleKeys, dr \in {NoDir, EmptyDir} :
          \/ Constructed([k \in keys |-> SampleColl(<<1>>)], dr)
          \/ \E m \in Metas :
                Constructed(Put([k \in keys |-> SampleColl(<<1>>)], MetadataKey, m), dr)

Called(op, o, before, columns) ==
    /\ ncalls < MaxCalls
    /\ ncalls' = ncalls + 1
    /\ prev' = call
    /\ call' = [op |-> op, raised |-> o.raised, before |-> before,
                handed |-> o.handed, columns |-> columns]

\* ds.save_to_disk(dir, ...)
SaveToDisk ==
    /\ \E fails \in BOOLEAN :
          LET o == SaveToDiskOutcome(ds, dir, fails)
          IN  /\ ds' = o.ds
              /\ dir' = o.dir
              /\ Called("save_to_disk", o, ds, {})
    /\ UNCHANGED <<runVars, setupVars>>

\* save_dataset_to_disk(ds, dir): mkdir if needed, then ds.save_to_disk(dir)
SaveDatasetToDisk ==
    /\ \E fails \in BOOLEAN :
          LET o == SaveToDiskOutcome(ds, [dir EXCEPT !.exists = TRUE], fails)
          IN  /\ ds' = o.ds
              /\ dir' = o.dir
              /\ Called("save_to_disk", o, ds, {})
    /\ UNCHANGED <<runVars, setupVars>>

\* ds = MyDatasetDict.load_from_disk(dir); an exception leaves ds as it was
LoadFromDisk ==
    /\ LET o == LoadFromDiskOutcome(ds, dir)
       IN  /\ ds' = o.ds
           /\ Called("load_from_disk", [raised |-> o.raised, handed |-> {}], ds, {})
    /\ UNCHANGED <<dir, runVars, setupVars>>

\* ds.set_format(type="torch", columns=columns)
StoreSetFormat ==
    /\ \E columns \in {{"embedding", "y"}, BaseColumns} :
          LET o == SetFormatOutcome(ds, columns)
          IN  /\ ds' = o.ds
              /\ Called("set_format", [raised |-> o.raised, handed |-> {}], ds, columns)
    /\ UNCHANGED <<dir, runVars, setupVars>>

NextStore ==
    \/ SaveToDisk
    \/ SaveDatasetToDisk
    \/ LoadFromDisk
    \/ StoreSetFormat

SpecStore == InitStore /\ [][NextStore]_vars

\* ----------------------------------------- the datamodule state machine
InitSetup ==
    /\ RunIdle
    /\ StoreIdle
    /\ \E nt \in 1..MaxTasks, toa \in BOOLEAN, shuffle \in BOOLEAN :
          \E t \in 0..nt : ConstructedDatamodule(nt, toa, t, shuffle)

\* datamodule.setup() with task_ind holding t
Setup ==
    /\ setupCall.n < MaxSetups
    /\ \E t \in 0..dm.num_tasks :
          LET d == [dm EXCEPT !.task_ind = t]
              o == SetupOutcome(d)
          IN  /\ dm' = o.dm
              /\ \E r \in o.raised :
                    setupCall' = [n |-> setupCall.n + 1, raised |-> r, before |-> d]
    /\ UNCHANGED <<runVars, storeVars>>

NextSetup == Setup

SpecSetup == InitSetup /\ [][NextSetup]_vars

\* ================================================================= claims
Loaded == data # EmptyStore
Original == disk[CurrentKey]
Table(t, mode) == data.tables[<<t, mode>>]
HasRel(coll) == RelColumn \in coll.cols
AfterAlign == pc \in {"evaluate", "record"}

\* C1: the evaluation stage is reached only if the id-sorted merged test
\* split has the same length and the same ids in the same positions as the
\* id-sorted task-0 test split.
C1_EvaluationOnlyIfAligned ==
    AfterAlign => Ids(merged.test) = Ids(merged.original_test)

\* C2: check_same_anchor_ids succeeds if and only if the anchor id sequences
\* of every pair of tasks are equal element for element and in length.
C2_CheckPassesIffAnchorsEqual ==
    /\ checked.done =>
          \A i, j \in DOMAIN checked.anchors :
              [n \in DOMAIN checked.anchors[i] |-> checked.anchors[i][n].id]
                = [n \in DOMAIN checked.anchors[j] |-> checked.anchors[j][n].id]
    /\ (pc = "aborted" /\ error.stage = "check_anchors") =>
          \E i, j \in 0..NumTasks :
              Ids(Table(i, "anchors")) # Ids(Table(j, "anchors"))

\* C3: no split carries relative_embeddings unless the anchor check has
\* passed on exactly the anchor splits the store holds (those left by the
\* subsampling); a run the check ends has projected no split.
C3_NoProjectionBeforeAnchorCheck ==
    /\ \A key \in DOMAIN data.tables :
          HasRel(data.tables[key]) =>
              /\ checked.done
              /\ \A t \in 0..NumTasks : checked.anchors[t] = Table(t, "anchors").rows
    /\ (pc = "aborted" /\ error.stage = "check_anchors") =>
          \A key \in DOMAIN data.tables : ~HasRel(data.tables[key])

C3_ProjectedAfterSubsampledCheck ==
    /\ pc = "set_format_rel"
    /\ HasRel(Table(0, "train"))
    /\ numAnchors = cfgNumAnchors
    /\ numAnchors < Len(Original.tables[<<0, "anchors">>].rows)

\* C4: a split whose embeddings, or whose task's anchor embeddings, hold a
\* zero-norm vector never receives a relative_embeddings column.
C4_ZeroNormRejected ==
    \A t \in 0..NumTasks : \A mode \in ProjectModes :
        (Loaded /\ HasRel(Table(t, mode))) =>
            /\ \A n \in DOMAIN Table(t, mode).rows :
                  NormSq(Table(t, mode).rows[n].embedding) # 0
            /\ \A a \in DOMAIN Table(t, "anchors").rows :
                  NormSq(Table(t, "anchors").rows[a].embedding) # 0

\* C5: when map_labels_to_global has returned, every train/val/test split of
\* tasks 1..num_tasks has the same rows in the same order with id and
\* embedding untouched and y the global label that the task's
\* global_to_local map sends to the old local y; task 0 and every anchors
\* split are unchanged.
C5_LabelsMappedInPlace ==
    pc = "set_format" =>
        \A key \in DOMAIN data.tables :
            LET new == data.tables[key]
                old == Original.tables[key]
            IN  IF key[1] >= 1 /\ key[2] \in {"train", "val", "test"}
                THEN /\ new.cols = old.cols
                     /\ Len(new.rows) = Len(old.rows)
                     /\ \A n \in DOMAIN old.rows :
                           /\ new.rows[n].id = old.rows[n].id
                           /\ new.rows[n].embedding = old.rows[n].embedding
                           /\ DecStr(new.rows[n].y) \in DictKeys(data.metadata.g2l[key[1]])
                           /\ DictGet(data.metadata.g2l[key[1]], DecStr(new.rows[n].y))
                                = old.rows[n].y
                ELSE new = old

C5_LabelsRewritten ==
    /\ pc = "set_format"
    /\ \E t \in 1..NumTasks :
          /\ Len(Table(t, "test").rows) >= 2
          /\ Table(t, "test").rows[1].y # Table(t, "test").rows[2].y
          /\ \A n \in DOMAIN Table(t, "test").rows :
                Table(t, "test").rows[n].y # Original.tables[<<t, "test">>].rows[n].y

\* The local labels of the train, val and test splits of task t on disk
\* that the inverted map of task t has no key for.
UnmappedLabels(t) ==
    UNION {{Original.tables[<<t, mode>>].rows[n].y :
               n \in DOMAIN Original.tables[<<t, mode>>].rows} :
              mode \in {"train", "val", "test"}}
      \ DictValues(Original.metadata.g2l[t])

\* C6: if a train, val or test sample of a task 1..num_tasks carries a local
\* label that is no key of the task's inverted map, map_labels_to_global
\* does not return: the run ends there with an error (a KeyError whenever the
\* label lookup is reached).
C6_MissingLabelFails ==
    (\E t \in 1..Original.metadata.num_tasks : UnmappedLabels(t) # {}) =>
        \/ pc \in {"load", "map_labels"}
        \/ /\ pc = "aborted"
           /\ error.stage = "map_labels"
           /\ "y" \in Original.tables[<<1, "train">>].fmt => error.kind = "KeyError"

C6_AbortedOnMissingLabel ==
    /\ pc = "aborted"
    /\ error = [stage |-> "map_labels", kind |-> "KeyError"]
    /\ \E t \in 1..NumTasks :
          /\ UnmappedLabels(t) # {}
          /\ Table(t, "train") # Original.tables[<<t, "train">>]

\* The local labels of the train, val and test splits of task t on disk.
PresentLabels(t) ==
    UNION {{Original.tables[<<t, mode>>].rows[n].y :
               n \in DOMAIN Original.tables[<<t, mode>>].rows} :
              mode \in {"train", "val", "test"}}

C8_RelativeColumnAligned ==
    pc = "set_format_rel" =>
        \A t \in 0..NumTasks : \A mode \in ProjectModes :
            LET new == Table(t, mode)
                old == beforeProject[<<t, mode>>]
                anc == Table(t, "anchors").rows
            IN  /\ new.cols = old.cols \cup {RelColumn}
                /\ Len(new.rows) = Len(old.rows)
                /\ \A n \in DOMAIN old.rows :
                      /\ new.rows[n].id = old.rows[n].id
                      /\ new.rows[n].y = old.rows[n].y
                      /\ new.rows[n].embedding = old.rows[n].embedding
                      /\ Len(new.rows[n][RelColumn]) = Len(anc)
                      /\ \A a \in DOMAIN anc :
                            new.rows[n][RelColumn][a]
                              = RelEntry(Normalize(old.rows[n].embedding),
                                         Normalize(anc[a].embedding))

C8_ProjectedOnSubsampledAnchors ==
    /\ pc = "set_format_rel"
    /\ Len(Table(0, "test").rows) = 2
    /\ Len(Table(0, "anchors").rows) = 1
    /\ Len(Original.tables[<<0, "anchors">>].rows) = 2
    /\ Table(0, "test").rows[1][RelColumn] # Table(0, "test").rows[2][RelColumn]

\* How many rows of the mode splits of tasks 1..num_tasks equal r.
CountInTasks(mode, r) ==
    Cardinality({p \in (1..NumTasks) \X (1..RowCap) :
                    /\ p[2] \in DOMAIN Table(p[1], mode).rows
                    /\ Table(p[1], mode).rows[p[2]] = r})
CountIn(rows, r) == Cardinality({i \in DOMAIN rows : rows[i] = r})
TaskIds(t, mode) == {Table(t, mode).rows[n].id : n \in DOMAIN Table(t, mode).rows}

\* C9: each merged collection holds exactly the rows of that split of tasks
\* 1..num_tasks, each as often as the tasks hold it, in ascending id order;
\* when no id occurs twice in those splits its ids are strictly ascending
\* and are the union of the tasks' id sets.
C9_MergedIsSortedUnion ==
    pc \in {"align", "evaluate", "record"} =>
        \A mode \in ProjectModes :
            LET m == merged[mode].rows
                total == Cardinality({p \in (1..NumTasks) \X (1..RowCap) :
                                         p[2] \in DOMAIN Table(p[1], mode).rows})
            IN  /\ Len(m) = total
                /\ \A i \in DOMAIN m : CountIn(m, m[i]) = CountInTasks(mode, m[i])
                /\ \A i, j \in DOMAIN m : i < j => m[i].id <= m[j].id
                /\ Cardinality(UNION {TaskIds(t, mode) : t \in 1..NumTasks}) = total =>
                      /\ \A i, j \in DOMAIN m : i < j => m[i].id < m[j].id
                      /\ {m[i].id : i \in DOMAIN m}
                           = UNION {TaskIds(t, mode) : t \in 1..NumTasks}

C9_MergeReordered ==
    /\ pc = "align"
    /\ NumTasks >= 2
    /\ Len(merged.test.rows) >= 3
    /\ merged.test.rows # ConcatRows(data.tables, "test", 1, NumTasks)
    /\ merged.test.rows[1].id < merged.test.rows[Len(merged.test.rows)].id

\* C10 as stated: when a configuration aborts, the results of every
\* configuration completed before it are in the three result files.
C10_EarlierResultsOnDiskAtAbort ==
    pc = "aborted" =>
        \A i \in 1..(idx - 1) : \A r \in ResultKinds :
            /\ files[r].written
            /\ files[r].content[configurations[i]] = ResultOf(r, configurations[i])

\* C10 amended: a completed configuration's results are in the in-memory
\* dictionaries before the next one begins; the result files are written
\* only once the whole grid has completed, so a run that aborts has written
\* none of them.
C10_ResultsSavedOnlyAfterGrid ==
    /\ \A i \in 1..(idx - 1) : \A r \in ResultKinds :
          allResults[r][configurations[i]] = ResultOf(r, configurations[i])
    /\ \A r \in ResultKinds :
          files[r].written => (pc = "done" /\ files[r].content = allResults[r])
    /\ pc # "done" => files = NoFiles

C10_AbortAfterCompletedConfigs ==
    /\ pc = "aborted"
    /\ idx >= 2
    /\ files = NoFiles
    /\ \E r \in ResultKinds : allResults[r] # EmptyResults

IsSortedById(coll) ==
    \A i, j \in DOMAIN coll.rows : i < j => coll.rows[i].id <= coll.rows[j].id

\* C12: the train split is never compared: a run that ends at the alignment
\* step ends on the error of the test id comparison, so whenever that
\* comparison passes the run goes on to the evaluation, whatever the merged
\* and the task-0 train ids are; the two train collections are the id-sorted
\* rows of the merged tasks and of task 0, nothing else is done to them.
C12_TrainSplitNeverChecked ==
    /\ (pc = "aborted" /\ error.stage = "align") =>
          /\ AssertAllEq(Ids(merged.test), Ids(merged.original_test)) # "none"
          /\ error.kind = AssertAllEq(Ids(merged.test), Ids(merged.original_test))
    /\ pc \in {"align", "evaluate", "record"} =>
          /\ IsSortedById(merged.train) /\ IsSortedById(merged.original_train)
          /\ merged.original_train \in SortById(Table(0, "train"))
          /\ merged.train \in SortById(ConcatenateDatasets(data.tables, "train", NumTasks))

C12_EvaluatedWithUnequalTrain ==
    /\ pc = "evaluate"
    /\ Len(merged.train.rows) # Len(merged.original_train.rows)
    /\ Len(merged.train.rows) > 1 /\ Len(merged.original_train.rows) > 1
    /\ \E i \in DOMAIN merged.original_train.rows :
          \A j \in DOMAIN merged.train.rows :
              merged.original_train.rows[i].id # merged.train.rows[j].id

\* The last two calls were a save_to_disk and a load_from_disk on the same
\* directory, and both returned.
SavedThenLoaded ==
    /\ call.op = "load_from_disk" /\ call.raised = "none"
    /\ prev.op = "save_to_disk" /\ prev.raised = "none"

\* C11: after save_to_disk followed by load_from_disk the loaded object's
\* "metadata" entry equals the record the saved object held; it is what
\* json.load reads from metadata.json; the bulk save is never called on a
\* dict holding the "metadata" key and what it wrote has no such entry.
C11_MetadataRoundTrip ==
    /\ SavedThenLoaded =>
          /\ MetadataKey \in DOMAIN ds.entries
          /\ ds.entries[MetadataKey] = prev.before.entries[MetadataKey]
          /\ dir.sidecar.state = "json"
          /\ ds.entries[MetadataKey] = JsonLoad(dir.sidecar.doc)
          /\ MetadataKey \notin prev.handed
          /\ DOMAIN ds.entries \ {MetadataKey} = DOMAIN dir.bulk.splits
    /\ call.op = "save_to_disk" => MetadataKey \notin call.handed
    /\ MetadataKey \notin DOMAIN dir.bulk.splits

C11_RoundTripOfTwoTasks ==
    /\ SavedThenLoaded
    /\ ds.entries[MetadataKey].num_tasks >= 2
    /\ Len(ds.entries[MetadataKey].g2l[1]) >= 2
    /\ SampleKeys \subseteq DOMAIN ds.entries
    /\ ds.data_keys # prev.before.data_keys

\* C14 as stated: whenever save_to_disk has been left, by a return or by an
\* exception, the object has the keys it had when the call began and its
\* "metadata" entry is the record it was.
C14_SaveLeavesStoreUnchanged ==
    call.op = "save_to_disk" =>
        /\ DOMAIN ds.entries = DOMAIN call.before.entries
        /\ MetadataKey \in DOMAIN call.before.entries =>
              ds.entries[MetadataKey] = call.before.entries[MetadataKey]

\* C15 as stated: set_format returns without an exception, every sample
\* collection of the object then has the requested format, and the
\* "metadata" entry is what it was.
C15_SetFormatFormatsSamples ==
    call.op = "set_format" =>
        /\ call.raised = "none"
        /\ \A k \in DOMAIN ds.entries \ {MetadataKey} :
              ds.entries[k].fmt = call.columns
        /\ MetadataKey \in DOMAIN call.before.entries =>
              /\ MetadataKey \in DOMAIN ds.entries
              /\ ds.entries[MetadataKey] = call.before.entries[MetadataKey]

SplitsOf(t) == {dm.data[<<t, m>>] : m \in SetupModeSet}

\* C13 as stated: seen_tasks is empty after construction; a task in
\* seen_tasks has had all four splits transformed; a setup() call on a seen
\* task changes neither the store nor seen_tasks; no split is transformed
\* more than once; no task leaves seen_tasks.
C13_EachTaskTransformedOnce ==
    /\ setupCall.n = 0 => dm.seen_tasks = {}
    /\ \A t \in dm.seen_tasks : \A sp \in SplitsOf(t) : sp.applied >= 1
    /\ (setupCall.n > 0 /\ setupCall.before.task_ind \in setupCall.before.seen_tasks) =>
          /\ dm.data = setupCall.before.data
          /\ dm.seen_tasks = setupCall.before.seen_tasks
    /\ \A key \in DOMAIN dm.data : dm.data[key].applied <= 1
    /\ setupCall.before.seen_tasks \subseteq dm.seen_tasks

====
